---- MODULE Spec2Model ----
(***************************************************************************)
(* A model of the XXTCloudControl relay hub (main.py): the authenticator   *)
(* is_data_valid, the registry (device_table, device_links,                *)
(* device_links_map), the controller set, the message loop of              *)
(* handle_connection, its close handler and the status poller.             *)
(***************************************************************************)
EXTENDS Integers, Sequences, FiniteSets, TLC

(***************************************************************************)
(* Bounds of the model.                                                    *)
(***************************************************************************)
\* websocket objects the server accepts during a run of Spec; a run of
\* SpecLifecycle accepts one more
NConn == 2
\* distinct udids that devices report
NUdid == 2
\* distinct app/state payloads per udid (the "rest" of the body)
NRev == 2
\* the clock readings int(time.time()) range over ClockBase..ClockBase+ClockSpan
ClockSpan == 1
\* first clock reading of the model (seconds)
ClockBase == 100

Conns == 1..NConn
AllConns == 1..(NConn + 1)
Udids == 1..NUdid
Revs == 1..NRev
Clock == ClockBase..(ClockBase + ClockSpan)

(***************************************************************************)
(* Text: a str / bytes value is a sequence of one-character strings.       *)
(***************************************************************************)
Digits == <<"0", "1", "2", "3", "4", "5", "6", "7", "8", "9">>
HexDigits == Digits \o <<"a", "b", "c", "d", "e", "f">>
UpperHex == <<"A", "B", "C", "D", "E", "F">>
LowerHex == <<"a", "b", "c", "d", "e", "f">>

\* ord(c) of the characters the model uses
Ord(c) ==
    IF \E i \in 1..10 : Digits[i] = c
    THEN 47 + (CHOOSE i \in 1..10 : Digits[i] = c)
    ELSE IF \E i \in 1..6 : LowerHex[i] = c
    THEN 96 + (CHOOSE i \in 1..6 : LowerHex[i] = c)
    ELSE IF \E i \in 1..6 : UpperHex[i] = c
    THEN 64 + (CHOOSE i \in 1..6 : UpperHex[i] = c)
    ELSE CASE c = "-" -> 45
           [] c = "X" -> 88
           [] c = "T" -> 84
           [] c = "o" -> 111
           [] c = "u" -> 117
           [] c = "h" -> 104
           [] OTHER -> 63

\* str.lower() on one character
LowerChar(c) ==
    IF \E i \in 1..6 : UpperHex[i] = c
    THEN LowerHex[CHOOSE i \in 1..6 : UpperHex[i] = c]
    ELSE c

\* str.lower()
lower(s) == [i \in 1..Len(s) |-> LowerChar(s[i])]

\* str.upper() on one character, used to build upper-case signatures
UpperChar(c) ==
    IF \E i \in 1..6 : LowerHex[i] = c
    THEN UpperHex[CHOOSE i \in 1..6 : LowerHex[i] = c]
    ELSE c

upper(s) == [i \in 1..Len(s) |-> UpperChar(s[i])]

RECURSIVE NatStr(_)
NatStr(n) ==
    IF n < 10 THEN <<Digits[n + 1]>>
    ELSE NatStr(n \div 10) \o <<Digits[(n % 10) + 1]>>

\* str(n) for an int: its decimal digits, with a leading "-" when negative
str(n) == IF n < 0 THEN <<"-">> \o NatStr(0 - n) ELSE NatStr(n)

(***************************************************************************)
(* hmac.new(key, msg, hashlib.sha256).hexdigest(): SHA-256 is represented  *)
(* by a keyed 8-bit digest printed as two lower-case hex digits.  The      *)
(* model uses only that the digest is a function of (key, msg), that it is *)
(* printed in lower-case hex, and that different keys or messages may      *)
(* give different digests.                                                 *)
(***************************************************************************)
RECURSIVE Mix(_, _)
Mix(h, bytes) ==
    IF bytes = <<>> THEN h
    ELSE Mix(((h + Ord(Head(bytes))) * 157 + 11) % 256, Tail(bytes))

hmac_hexdigest(key, msg) ==
    LET h == Mix(Mix(7, key), msg)
    IN  <<HexDigits[(h \div 16) + 1], HexDigits[(h % 16) + 1]>>

serv_pass == <<"1", "2", "3", "4", "5", "6", "7", "8">>

passhash == lower(hmac_hexdigest(<<"X", "X", "T", "o", "u", "c", "h">>, serv_pass))

\* a password the hub does not use, and the secret derived from it
wrong_pass == <<"8", "7", "6", "5", "4", "3", "2", "1">>
wrong_passhash == lower(hmac_hexdigest(<<"X", "X", "T", "o", "u", "c", "h">>, wrong_pass))

(***************************************************************************)
(* JSON values of the ts and sign fields of a request.                     *)
(***************************************************************************)
Absent == [t |-> "absent"]
JInt(n) == [t |-> "int", v |-> n]
JStr(s) == [t |-> "str", s |-> s]
JBool == [t |-> "bool"]
JFloat == [t |-> "float"]

\* the signature a controller holding `key` computes for timestamp n
SignFor(key, n) == hmac_hexdigest(key, str(n))

\* is_data_valid raises KeyError instead of returning when a field it reads
\* is missing: data['ts'] is read first, data['sign'] only once ts is an int
is_data_valid_raises(data) ==
    \/ data.ts.t = "absent"
    \/ data.ts.t = "int" /\ data.sign.t = "absent"

\* a plausible slip: the upper end of the window exclusive
is_data_valid_strict_upper(data, t1, t2) ==
    /\ data.ts.t = "int"
    /\ data.sign.t = "str"
    /\ t1 - 10 <= data.ts.v
    /\ data.ts.v < t2 + 10
    /\ lower(hmac_hexdigest(passhash, str(data.ts.v))) = lower(data.sign.s)

\* is_data_valid(data); t1 and t2 are the two readings of int(time.time())
\* the chained comparison makes, the first for the lower bound
is_data_valid(data, t1, t2) ==
    /\ data.ts.t = "int"
    /\ data.sign.t = "str"
    /\ t1 - 10 <= data.ts.v
    /\ data.ts.v <= t2 + 10
    /\ lower(hmac_hexdigest(passhash, str(data.ts.v))) = lower(data.sign.s)

(***************************************************************************)
(* State of the hub.                                                       *)
(***************************************************************************)
VARIABLES
    device_table,       \* udid -> last app/state body
    device_links,       \* udid -> websocket
    device_links_map,   \* websocket -> udid
    controllers,        \* set of websockets
    conn_state,         \* websocket -> "new" | "open" | "closed"
    authed,             \* websockets that have passed is_data_valid (history)
    ev,                 \* the step the hub took last
    sent,               \* the sends that step issued, in order
    auth_call,          \* is_data_valid alone: its argument and clock readings
    auth_ret,           \* is_data_valid alone: its outcome
    stop_timer,         \* the global flag of the same name
    status_timer_task,  \* where the poller task is: "none" | "sleeping" |
                        \* "sending" | "cancelling" | "done"
    main_pc             \* where main() is: "start" | "started" | "serving" |
                        \* "stopping" | "stopped"

hub_vars == <<device_table, device_links, device_links_map, controllers,
              conn_state, authed, ev, sent>>
auth_vars == <<auth_call, auth_ret>>
poller_vars == <<stop_timer, status_timer_task, main_pc>>
vars == <<device_table, device_links, device_links_map, controllers,
          conn_state, authed, ev, sent, auth_call, auth_ret,
          stop_timer, status_timer_task, main_pc>>

(***************************************************************************)
(* JSON objects are records; a key is present iff it is in the DOMAIN.     *)
(* Body values are records too, so that the empty string '' the hub        *)
(* substitutes for a missing body is the record EmptyBody.                 *)
(***************************************************************************)
EmptyBody == [k |-> "empty"]
XYBody == [k |-> "xy"]
RawText == [k |-> "raw"]

HasKey(d, k) == k \in DOMAIN d

\* d[k] = v on a dict
SetKey(d, k, v) == [x \in (DOMAIN d) \cup {k} |-> IF x = k THEN v ELSE d[x]]

\* del d[k] on a dict
DelKey(d, k) == [x \in (DOMAIN d) \ {k} |-> d[x]]

EmptyDict == [x \in {} |-> x]

RECURSIVE SortedSeq(_)
\* iteration over a set or over the keys of a dict: the model iterates in
\* ascending order; the hub's order across different targets is not observed
SortedSeq(S) ==
    IF S = {} THEN <<>>
    ELSE LET m == CHOOSE x \in S : \A y \in S : x <= y
         IN  <<m>> \o SortedSeq(S \ {m})

\* device_links.values()
LinkValues ==
    LET ks == SortedSeq(DOMAIN device_links)
    IN  [i \in 1..Len(ks) |-> device_links[ks[i]]]

\* conn.send(json.dumps(msg)): the send reaches the peer iff conn is open,
\* and raises ConnectionClosed in its own task otherwise
Send(to, msg) == [to |-> to, msg |-> msg, ok |-> conn_state[to] = "open"]

\* a variant that awaits the sends one after the other and gives up at the
\* first one that raises
GatherUntilFailure(targets, msg) ==
    LET bad == {i \in 1..Len(targets) : conn_state[targets[i]] # "open"}
        n == IF bad = {} THEN Len(targets)
             ELSE CHOOSE i \in bad : \A j \in bad : i <= j
    IN  [i \in 1..n |-> Send(targets[i], msg)]

\* asyncio.gather over one send per target: every send runs as a task of
\* its own, and a send that raises does not cancel the others
Gather(targets, msg) == [i \in 1..Len(targets) |-> Send(targets[i], msg)]

StatusRequest == [type |-> "app/state", body |-> EmptyBody]

NoData == [type |-> "none"]
Event(kind, c, data, auth, raised) ==
    [kind |-> kind, conn |-> c, data |-> data, auth |-> auth, raised |-> raised]

(***************************************************************************)
(* Inputs.                                                                 *)
(***************************************************************************)
\* longest devices list and longest commands list of a request
MaxDevices == 2
MaxCommands == 2

\* the clock reading the hub makes while it handles control requests
HubNow == ClockBase

SeqsUpTo(S, n) == UNION {[1..k -> S] : k \in 0..n}

\* the ts / sign pairs controllers send to the hub: a fresh request signed
\* with the hub's secret, one signed with another secret, one without ts
\* (SpecAuth explores is_data_valid over all its inputs)
HubAuthInputs ==
    { [ts |-> JInt(HubNow), sign |-> JStr(SignFor(passhash, HubNow))],
      [ts |-> JInt(HubNow), sign |-> JStr(SignFor(wrong_passhash, HubNow))],
      [ts |-> Absent, sign |-> JStr(SignFor(passhash, HubNow))] }

\* what `if not is_data_valid(data): continue` makes of a request
AuthOutcome(data) ==
    IF is_data_valid_raises(data) THEN "raised"
    ELSE IF is_data_valid(data, HubNow, HubNow) THEN "accepted"
    ELSE "rejected"

Request(type, a) == [type |-> type, ts |-> a.ts, sign |-> a.sign]

\* the requests of each control type, with the outcome of their check
ControlTypes == {"control/devices", "control/refresh", "control/command",
                 "control/commands"}
HubRequests ==
    [t \in ControlTypes |->
        {[data |-> Request(t, a), out |-> AuthOutcome(Request(t, a))] :
            a \in HubAuthInputs}]

\* lists without repetition
Injective(q) == \A i, j \in 1..Len(q) : q[i] = q[j] => i = j
DeviceLists == {d \in SeqsUpTo(Udids, MaxDevices) : Injective(d)}

\* the body of a control/command request, with and without a body of its own
CommandBodies ==
    {[devices |-> d, type |-> "touch/down", body |-> XYBody] : d \in DeviceLists}
    \cup {[devices |-> d, type |-> "touch/up"] : d \in {x \in DeviceLists : Len(x) = 1}}

Commands == {[type |-> "touch/down", body |-> XYBody], [type |-> "touch/up"]}
CommandLists == {q \in SeqsUpTo(Commands, MaxCommands) : Injective(q)}

\* the body of a control/commands request
CommandsBodies ==
    {[devices |-> d, commands |-> cs] : d \in DeviceLists, cs \in CommandLists}

\* a udid value that cannot be a dict key (a JSON list or object)
UnhashableUdid == 0

StateBody(u, r) == [system |-> [udid |-> u], rev |-> r]

\* app/state messages: well-formed ones, one without a body, one whose body
\* has no system.udid, one whose udid is unhashable
AppStates ==
    {[type |-> "app/state", body |-> StateBody(u, r)] : u \in Udids, r \in Revs}
    \cup {[type |-> "app/state"],
          [type |-> "app/state", body |-> [rev |-> 1]],
          [type |-> "app/state", body |-> StateBody(UnhashableUdid, 1)]}

\* messages of a type the dispatch does not name, with and without a udid
\* field of their own
OtherMessages ==
    {[type |-> "app/log", body |-> XYBody],
     [type |-> "app/log", body |-> XYBody, udid |-> NUdid]}

(***************************************************************************)
(* Init: the module-level state of main.py, no connection accepted yet.    *)
(***************************************************************************)
AuthIdle == [phase |-> "idle"]

HubInit ==
    /\ device_table = EmptyDict
    /\ device_links = EmptyDict
    /\ device_links_map = EmptyDict
    /\ controllers = {}
    /\ conn_state = [c \in AllConns |-> "new"]
    /\ authed = {}
    /\ ev = Event("init", 0, NoData, "none", FALSE)
    /\ sent = <<>>

\* status_timer_task = None; stop_timer = False; main() not entered yet
PollerInit ==
    /\ stop_timer = FALSE
    /\ status_timer_task = "none"
    /\ main_pc = "start"

Init ==
    /\ HubInit
    /\ PollerInit
    /\ auth_call = AuthIdle
    /\ auth_ret = AuthIdle

(***************************************************************************)
(* handle_connection: one action per kind of frame the loop body handles.  *)
(* Between two awaits the handler runs alone (one asyncio thread), and     *)
(* every branch mutates the shared state and builds its list of sends      *)
(* before its only await, so a branch is one step.                         *)
(***************************************************************************)
Registry == <<device_table, device_links, device_links_map>>

\* websockets.serve accepts a connection and starts handle_connection for it;
\* the websocket objects are numbered in the order they are accepted
Connect(c) ==
    /\ main_pc \in {"serving", "stopping"}
    /\ conn_state[c] = "new"
    /\ \A d \in AllConns : d < c => conn_state[d] # "new"
    /\ conn_state' = [conn_state EXCEPT ![c] = "open"]
    /\ ev' = Event("connect", c, NoData, "none", FALSE)
    /\ sent' = <<>>
    /\ UNCHANGED <<Registry, controllers, authed, auth_vars, poller_vars>>

\* a step of the loop that changes nothing and sends nothing
Quiet(c, kind, data, auth, raised) ==
    /\ ev' = Event(kind, c, data, auth, raised)
    /\ sent' = <<>>
    /\ UNCHANGED <<Registry, controllers, authed, conn_state, auth_vars, poller_vars>>

\* a binary frame: ignored
RecvBinary(c) ==
    /\ conn_state[c] = "open"
    /\ Quiet(c, "binary", NoData, "none", FALSE)

BadJsonReply == [error |-> "bad json", type |-> "error", body |-> RawText]

\* a text frame json.loads rejects
RecvBadJson(c) ==
    /\ conn_state[c] = "open"
    /\ ev' = Event("badjson", c, NoData, "none", FALSE)
    /\ sent' = <<Send(c, BadJsonReply)>>
    /\ UNCHANGED <<Registry, controllers, authed, conn_state, auth_vars, poller_vars>>

\* a text frame on which json.loads raises something other than
\* JSONDecodeError (RecursionError, on deeply nested brackets): no except
\* clause of handle_connection matches, the handler ends with the exception
\* and the server closes the connection; the close handler does not run
RecvUncaught(c) ==
    /\ conn_state[c] = "open"
    /\ conn_state' = [conn_state EXCEPT ![c] = "closed"]
    /\ ev' = Event("uncaught", c, NoData, "none", TRUE)
    /\ sent' = <<>>
    /\ UNCHANGED <<Registry, controllers, authed, auth_vars, poller_vars>>

\* a JSON object without a type key (KeyError at data['type']); a JSON
\* value that is not an object raises TypeError at the same place
RecvUntyped(c) ==
    /\ conn_state[c] = "open"
    /\ Quiet(c, "message", [body |-> XYBody], "none", TRUE)

\* a variant that registers the sender as a controller before the check
DroppedAfterAdd(c, data, out) ==
    /\ ev' = Event("message", c, data, out, FALSE)
    /\ sent' = <<>>
    /\ controllers' = controllers \cup {c}
    /\ UNCHANGED <<Registry, authed, conn_state, auth_vars, poller_vars>>

\* `if not is_data_valid(data): continue`, and the KeyError of a request
\* without ts or sign, which the except of the loop body prints
Dropped(c, data, out) ==
    /\ ev' = Event("message", c, data, out, FALSE)
    /\ sent' = <<>>
    /\ UNCHANGED <<Registry, controllers, authed, conn_state, auth_vars, poller_vars>>

\* controllers.add(websocket) after is_data_valid returned True
AddController(c) ==
    /\ controllers' = controllers \cup {c}
    /\ authed' = authed \cup {c}

\* a variant that answers only with the devices whose connection is open
DevicesReplyOpenOnly ==
    [type |-> "control/devices",
     body |-> [k |-> "table",
               table |-> [u \in {x \in DOMAIN device_table :
                                    /\ x \in DOMAIN device_links
                                    /\ conn_state[device_links[x]] = "open"}
                          |-> device_table[u]]]]

\* {'type': 'control/devices', 'body': device_table}
DevicesReply ==
    [type |-> "control/devices", body |-> [k |-> "table", table |-> device_table]]

RecvControlDevices(c) ==
    /\ conn_state[c] = "open"
    /\ \E r \in HubRequests["control/devices"] :
         LET data == r.data
             out == r.out
         IN  IF out # "accepted"
             THEN Dropped(c, data, out)
             ELSE /\ AddController(c)
                  /\ sent' = <<Send(c, DevicesReply)>>
                  /\ ev' = Event("message", c, data, out, FALSE)
                  /\ UNCHANGED <<Registry, conn_state, auth_vars, poller_vars>>

RecvControlRefresh(c) ==
    /\ conn_state[c] = "open"
    /\ \E r \in HubRequests["control/refresh"] :
         LET data == r.data
             out == r.out
         IN  IF out # "accepted"
             THEN Dropped(c, data, out)
             ELSE /\ AddController(c)
                  /\ sent' = Gather(LinkValues, StatusRequest)
                  /\ ev' = Event("message", c, data, out, FALSE)
                  /\ UNCHANGED <<Registry, conn_state, auth_vars, poller_vars>>

\* {'type': cmd['type'], 'body': cmd['body'] if 'body' in cmd else ''}
CommandMessage(cmd) ==
    [type |-> cmd.type, body |-> IF HasKey(cmd, "body") THEN cmd.body ELSE EmptyBody]

\* the list comprehension of control/command: device_links[udid] raises
\* KeyError for the first udid that is not registered, before any send
CommandRaises(data) ==
    \/ ~HasKey(data, "body")
    \/ \E i \in 1..Len(data.body.devices) :
         data.body.devices[i] \notin DOMAIN device_links

CommandSends(data) ==
    LET body == data.body
    IN  [i \in 1..Len(body.devices) |->
            Send(device_links[body.devices[i]], CommandMessage(body))]

RecvControlCommand(c) ==
    /\ conn_state[c] = "open"
    /\ \E r \in HubRequests["control/command"] :
         LET req == r.data
             out == r.out
         IN  IF out # "accepted"
             THEN Dropped(c, req, out)
             ELSE \E data \in {req} \cup {SetKey(req, "body", b) : b \in CommandBodies} :
                  /\ AddController(c)
                  /\ sent' = IF CommandRaises(data) THEN <<>> ELSE CommandSends(data)
                  /\ ev' = Event("message", c, data, out, CommandRaises(data))
                  /\ UNCHANGED <<Registry, conn_state, auth_vars, poller_vars>>

\* the nested loops of control/commands: device_links[udid] is evaluated
\* once per command, so it raises only when there is a command to send
CommandsRaises(data) ==
    \/ ~HasKey(data, "body")
    \/ /\ data.body.commands # <<>>
       /\ \E i \in 1..Len(data.body.devices) :
            data.body.devices[i] \notin DOMAIN device_links

\* a variant that sends each device the commands last to first
CommandsSendsReversed(data) ==
    LET devices == data.body.devices
        commands == data.body.commands
        nc == Len(commands)
    IN  [k \in 1..(Len(devices) * nc) |->
            Send(device_links[devices[((k - 1) \div nc) + 1]],
                 CommandMessage(commands[nc - ((k - 1) % nc)]))]

\* send_tasks of control/commands: for udid in devices, for cmd in commands
CommandsSends(data) ==
    LET devices == data.body.devices
        commands == data.body.commands
        nc == Len(commands)
    IN  [k \in 1..(Len(devices) * nc) |->
            Send(device_links[devices[((k - 1) \div nc) + 1]],
                 CommandMessage(commands[((k - 1) % nc) + 1]))]

RecvControlCommands(c) ==
    /\ conn_state[c] = "open"
    /\ \E r \in HubRequests["control/commands"] :
         LET req == r.data
             out == r.out
         IN  IF out # "accepted"
             THEN Dropped(c, req, out)
             ELSE \E data \in {req} \cup {SetKey(req, "body", b) : b \in CommandsBodies} :
                  /\ AddController(c)
                  /\ sent' = IF CommandsRaises(data) THEN <<>> ELSE CommandsSends(data)
                  /\ ev' = Event("message", c, data, out, CommandsRaises(data))
                  /\ UNCHANGED <<Registry, conn_state, auth_vars, poller_vars>>

\* a variant that relays to every open connection
RelayToAllOpen(c, data, map) ==
    IF controllers # {} /\ c \in DOMAIN map
    THEN Gather(SortedSeq({x \in AllConns : conn_state[x] = "open"}),
                SetKey(data, "udid", map[c]))
    ELSE <<>>

\* a variant that keeps a udid field the message already carries
RelayKeepsUdid(c, data, map) ==
    IF controllers # {} /\ c \in DOMAIN map
    THEN Gather(SortedSeq(controllers),
                IF HasKey(data, "udid") THEN data ELSE SetKey(data, "udid", map[c]))
    ELSE <<>>

\* the relay at the end of the loop body, for the reverse map `map`
Relay(c, data, map) ==
    IF controllers # {} /\ c \in DOMAIN map
    THEN Gather(SortedSeq(controllers), SetKey(data, "udid", map[c]))
    ELSE <<>>

\* a variant that keeps the connection a udid is already bound to
RegisterDeviceKeepsFirst(c, udid, body) ==
    /\ device_links' = IF udid \in DOMAIN device_links THEN device_links
                       ELSE SetKey(device_links, udid, c)
    /\ device_links_map' = SetKey(device_links_map, c, udid)
    /\ device_table' = SetKey(device_table, udid, body)

\* a variant that forgets the state snapshot
RegisterDeviceNoTable(c, udid, body) ==
    /\ device_links' = SetKey(device_links, udid, c)
    /\ device_links_map' = SetKey(device_links_map, c, udid)
    /\ device_table' = device_table

\* device_links[udid] = websocket; device_links_map[websocket] = udid;
\* device_table[udid] = body
RegisterDevice(c, udid, body) ==
    /\ device_links' = SetKey(device_links, udid, c)
    /\ device_links_map' = SetKey(device_links_map, c, udid)
    /\ device_table' = SetKey(device_table, udid, body)

\* body = data['body']; udid = body['system']['udid']; device_links[udid] = ...
\* raises before the first assignment when a key is missing or udid is unhashable
AppStateRaises(data) ==
    \/ ~HasKey(data, "body")
    \/ ~HasKey(data.body, "system")
    \/ data.body.system.udid = UnhashableUdid

RecvAppState(c) ==
    /\ conn_state[c] = "open"
    /\ \E data \in AppStates :
         IF AppStateRaises(data)
         THEN Quiet(c, "message", data, "none", TRUE)
         ELSE LET udid == data.body.system.udid
                  map == SetKey(device_links_map, c, udid)
              IN  /\ RegisterDevice(c, udid, data.body)
                  /\ sent' = Relay(c, data, map)
                  /\ ev' = Event("message", c, data, "none", FALSE)
                  /\ UNCHANGED <<controllers, authed, conn_state, auth_vars, poller_vars>>

\* a message of any other type falls through to the relay
RecvOther(c) ==
    /\ conn_state[c] = "open"
    /\ \E data \in OtherMessages :
         /\ sent' = Relay(c, data, device_links_map)
         /\ ev' = Event("message", c, data, "none", FALSE)
         /\ UNCHANGED <<Registry, controllers, authed, conn_state, auth_vars, poller_vars>>

(***************************************************************************)
(* The end of the message loop.  `async for message in websocket` raises   *)
(* ConnectionClosedError into the handler when the connection was closed   *)
(* abnormally (no close frame, a ping timeout, a close code other than     *)
(* 1000 / 1001), and simply ends the loop when it was closed normally.     *)
(***************************************************************************)
\* what the close handler finds for websocket c
CloseData(c) ==
    [type |-> "close",
     was_controller |-> c \in controllers,
     was_device |-> c \in DOMAIN device_links_map,
     udid |-> IF c \in DOMAIN device_links_map THEN device_links_map[c] ELSE 0]

DisconnectMessage(udid) ==
    [type |-> "device/disconnect", body |-> [k |-> "udid", udid |-> udid]]

\* the except branch: the three del statements in order, each raising
\* KeyError (and ending the handler) when its key is missing
CloseCleanup(c) ==
    IF c \in controllers
    THEN /\ controllers' = controllers \ {c}
         /\ sent' = <<>>
         /\ ev' = Event("close_error", c, CloseData(c), "none", FALSE)
         /\ UNCHANGED Registry
    ELSE IF c \in DOMAIN device_links_map
    THEN LET udid == device_links_map[c]
             ok1 == udid \in DOMAIN device_table
             ok2 == ok1 /\ udid \in DOMAIN device_links
         IN  /\ device_table' = IF ok1 THEN DelKey(device_table, udid) ELSE device_table
             /\ device_links' = IF ok2 THEN DelKey(device_links, udid) ELSE device_links
             /\ device_links_map' =
                    IF ok2 THEN DelKey(device_links_map, c) ELSE device_links_map
             /\ sent' = IF ok2 /\ controllers # {}
                        THEN Gather(SortedSeq(controllers), DisconnectMessage(udid))
                        ELSE <<>>
             /\ ev' = Event("close_error", c, CloseData(c), "none", ~ok2)
             /\ UNCHANGED controllers
    ELSE /\ sent' = <<>>
         /\ ev' = Event("close_error", c, CloseData(c), "none", FALSE)
         /\ UNCHANGED <<Registry, controllers>>

\* the connection closes abnormally: ConnectionClosed reaches the except branch
CloseError(c) ==
    /\ conn_state[c] = "open"
    /\ conn_state' = [conn_state EXCEPT ![c] = "closed"]
    /\ CloseCleanup(c)
    /\ UNCHANGED <<authed, auth_vars, poller_vars>>

\* the connection closes normally: the loop ends, the handler returns
CloseOK(c) ==
    /\ conn_state[c] = "open"
    /\ conn_state' = [conn_state EXCEPT ![c] = "closed"]
    /\ ev' = Event("close_ok", c, CloseData(c), "none", FALSE)
    /\ sent' = <<>>
    /\ UNCHANGED <<Registry, controllers, authed, auth_vars, poller_vars>>

(***************************************************************************)
(* main() and the status poller.  main starts the poller task, serves, and *)
(* stops the poller in its finally block, which runs inside the            *)
(* `async with websockets.serve(...)` block, the server still accepting.   *)
(***************************************************************************)
\* stop_timer = False; status_timer_task = asyncio.create_task(...)
start_status_timer ==
    /\ main_pc = "start"
    /\ main_pc' = "started"
    /\ stop_timer' = FALSE
    /\ status_timer_task' = "sleeping"
    /\ ev' = Event("start_timer", 0, NoData, "none", FALSE)
    /\ sent' = <<>>
    /\ UNCHANGED <<Registry, controllers, authed, conn_state, auth_vars>>

\* async with websockets.serve(handle_connection, "0.0.0.0", 46980, ...)
Serve ==
    /\ main_pc = "started"
    /\ main_pc' = "serving"
    /\ ev' = Event("serve", 0, NoData, "none", FALSE)
    /\ sent' = <<>>
    /\ UNCHANGED <<Registry, controllers, authed, conn_state, auth_vars,
                   stop_timer, status_timer_task>>

send_status_request_to_all_devices ==
    IF DOMAIN device_links = {} THEN <<>> ELSE Gather(LinkValues, StatusRequest)

\* one whole round of status_request_timer: the sleep ends, stop_timer is
\* False, the requests are sent and gathered, the loop sleeps again
StatusTick ==
    /\ status_timer_task = "sleeping"
    /\ ~stop_timer
    /\ sent' = send_status_request_to_all_devices
    /\ ev' = Event("tick", 0, NoData, "none", FALSE)
    /\ UNCHANGED <<Registry, controllers, authed, conn_state, auth_vars, poller_vars>>

\* the first half of a round: the requests are sent and the poller waits
\* in `await asyncio.gather(...)`, where a cancellation can reach it
BroadcastStart ==
    /\ status_timer_task = "sleeping"
    /\ ~stop_timer
    /\ DOMAIN device_links # {}
    /\ status_timer_task' = "sending"
    /\ sent' = send_status_request_to_all_devices
    /\ ev' = Event("tick", 0, NoData, "none", FALSE)
    /\ UNCHANGED <<Registry, controllers, authed, conn_state, auth_vars,
                   stop_timer, main_pc>>

\* the second half: gather returns (return_exceptions=True, so it never
\* raises), the loop goes back to asyncio.sleep
BroadcastDone ==
    /\ status_timer_task = "sending"
    /\ status_timer_task' = "sleeping"
    /\ ev' = Event("tick_done", 0, NoData, "none", FALSE)
    /\ sent' = <<>>
    /\ UNCHANGED <<Registry, controllers, authed, conn_state, auth_vars,
                   stop_timer, main_pc>>

\* what stop_status_timer finds the poller doing
StopData == [type |-> "stop", task |-> status_timer_task]

\* a variant that does not wait for the task: stop_timer = True, cancel, return
stop_status_timer_no_wait ==
    /\ main_pc \in {"started", "serving"}
    /\ main_pc' = "stopped"
    /\ stop_timer' = TRUE
    /\ status_timer_task' =
          IF status_timer_task \in {"sleeping", "sending"} THEN "cancelling"
          ELSE status_timer_task
    /\ ev' = Event("stop_timer", 0, StopData, "none", FALSE)
    /\ sent' = <<>>
    /\ UNCHANGED <<Registry, controllers, authed, conn_state, auth_vars>>

\* the finally block of main: stop_timer = True; status_timer_task.cancel()
\* when the task is not done; then `await status_timer_task`
stop_status_timer ==
    /\ main_pc \in {"started", "serving"}
    /\ main_pc' = "stopping"
    /\ stop_timer' = TRUE
    /\ status_timer_task' =
          IF status_timer_task \in {"sleeping", "sending"} THEN "cancelling"
          ELSE status_timer_task
    /\ ev' = Event("stop_timer", 0, StopData, "none", FALSE)
    /\ sent' = <<>>
    /\ UNCHANGED <<Registry, controllers, authed, conn_state, auth_vars>>

\* CancelledError is thrown into the poller at its await (the sleep or the
\* gather); `except asyncio.CancelledError: break` ends the loop
PollerCancelled ==
    /\ status_timer_task = "cancelling"
    /\ status_timer_task' = "done"
    /\ ev' = Event("timer_stopped", 0, NoData, "none", FALSE)
    /\ sent' = <<>>
    /\ UNCHANGED <<Registry, controllers, authed, conn_state, auth_vars,
                   stop_timer, main_pc>>

\* `await status_timer_task` returns once the task is done
StopReturn ==
    /\ main_pc = "stopping"
    /\ status_timer_task \in {"none", "done"}
    /\ main_pc' = "stopped"
    /\ ev' = Event("stop_return", 0, NoData, "none", FALSE)
    /\ sent' = <<>>
    /\ UNCHANGED <<Registry, controllers, authed, conn_state, auth_vars,
                   stop_timer, status_timer_task>>

Next ==
    \/ start_status_timer
    \/ Serve
    \/ \E c \in Conns : Connect(c)
    \/ \E c \in Conns : RecvBinary(c)
    \/ \E c \in Conns : RecvBadJson(c)
    \/ \E c \in Conns : RecvUncaught(c)
    \/ \E c \in Conns : RecvUntyped(c)
    \/ \E c \in Conns : RecvControlDevices(c)
    \/ \E c \in Conns : RecvControlRefresh(c)
    \/ \E c \in Conns : RecvControlCommand(c)
    \/ \E c \in Conns : RecvControlCommands(c)
    \/ \E c \in Conns : RecvAppState(c)
    \/ \E c \in Conns : RecvOther(c)
    \/ \E c \in Conns : CloseError(c)
    \/ \E c \in Conns : CloseOK(c)
    \/ StatusTick

Spec == Init /\ [][Next]_vars

(***************************************************************************)
(* is_data_valid on its own: a call with arbitrary ts, sign and clock.     *)
(***************************************************************************)
\* the second reading of the clock is the first or one second later
ClockReads == {<<t1, t2>> \in Clock \X (ClockBase..(ClockBase + ClockSpan + 1)) :
                  t2 = t1 \/ t2 = t1 + 1}

TsInts == ((ClockBase - 12)..(ClockBase + ClockSpan + 13)) \cup {0 - ClockBase}

TsValues == {Absent, JBool, JFloat} \cup {JInt(n) : n \in TsInts}

SignTexts ==
    UNION {{SignFor(passhash, n), upper(SignFor(passhash, n)),
            SignFor(wrong_passhash, n)} : n \in TsInts}

SignValues == {Absent, JFloat} \cup {JStr(s) : s \in SignTexts}

AuthCalls ==
    {[phase |-> "call", data |-> [type |-> "control/devices", ts |-> ts, sign |-> sg],
      t1 |-> r[1], t2 |-> r[2]] :
        ts \in TsValues, sg \in SignValues, r \in ClockReads}

InitAuth ==
    /\ HubInit
    /\ PollerInit
    /\ auth_call \in AuthCalls
    /\ auth_ret = AuthIdle

CallIsDataValid ==
    /\ auth_call.phase = "call"
    /\ auth_ret.phase = "idle"
    /\ auth_ret' =
          [phase |-> "done",
           outcome |-> IF is_data_valid_raises(auth_call.data) THEN "raised"
                       ELSE IF is_data_valid(auth_call.data, auth_call.t1, auth_call.t2)
                       THEN "accepted"
                       ELSE "rejected"]
    /\ UNCHANGED <<auth_call, hub_vars, poller_vars>>

NextAuth == CallIsDataValid

SpecAuth == InitAuth /\ [][NextAuth]_vars

(***************************************************************************)
(* The hub serving one more connection, which send well-formed traffic     *)
(* only: app/state, control/devices, closes of both kinds, poller rounds.  *)
(***************************************************************************)
NextLifecycle ==
    \/ start_status_timer
    \/ Serve
    \/ \E c \in AllConns : Connect(c)
    \/ \E c \in AllConns : RecvControlDevices(c)
    \/ \E c \in AllConns : RecvAppState(c)
    \/ \E c \in AllConns : CloseError(c)
    \/ \E c \in AllConns : CloseOK(c)
    \/ StatusTick

SpecLifecycle == Init /\ [][NextLifecycle]_vars

(***************************************************************************)
(* The hub from start to shutdown: devices register and close while main   *)
(* starts the poller, serves and stops the poller.  The event loop runs    *)
(* every task that is ready, so a cancelled poller does get its            *)
(* CancelledError and a finished task does wake the coroutine awaiting it. *)
(***************************************************************************)
NextPoller ==
    \/ start_status_timer
    \/ Serve
    \/ /\ main_pc # "stopped"
       /\ \/ \E c \in Conns : Connect(c)
          \/ \E c \in Conns : RecvAppState(c)
          \/ \E c \in Conns : CloseError(c)
    \/ StatusTick
    \/ BroadcastStart
    \/ BroadcastDone
    \/ stop_status_timer
    \/ PollerCancelled
    \/ StopReturn

SpecPoller ==
    /\ Init
    /\ [][NextPoller]_vars
    /\ WF_vars(PollerCancelled)
    /\ WF_vars(StopReturn)

(***************************************************************************)
(* Properties.                                                             *)
(***************************************************************************)
IsMessage(e) == e.kind = "message" /\ HasKey(e.data, "type")
IsControl(e) == IsMessage(e) /\ e.data.type \in ControlTypes
IsClose(e) == e.kind \in {"close_error", "close_ok"}

\* the positions of `sent` that are sends of msg to connection c
SendsTo(c, msg) == {i \in 1..Len(sent) : sent[i].to = c /\ sent[i].msg = msg}

\* C1: in every reachable state the udids with a connection entry (keys of
\* device_links) are the udids with a state snapshot (keys of device_table)
C1_RegistryKeysAgree == DOMAIN device_links = DOMAIN device_table

\* C1 witness: the close handler has removed one device while another udid
\* is still registered
C1_Witness ==
    /\ ev.kind = "close_error"
    /\ ev.data.was_device
    /\ ~ev.data.was_controller
    /\ ~ev.raised
    /\ DOMAIN device_links # {}
    /\ ev.data.udid \notin DOMAIN device_links

\* C2: a control/* request that fails authentication (is_data_valid returns
\* False or raises) is dropped: the controller set, the registry and the
\* connection states are unchanged, nothing is sent to anybody, and the
\* sender stays open
C2_FailedAuthDropped ==
    [][(IsControl(ev') /\ ev'.auth # "accepted")
        => /\ controllers' = controllers
           /\ device_table' = device_table
           /\ device_links' = device_links
           /\ device_links_map' = device_links_map
           /\ conn_state' = conn_state
           /\ conn_state'[ev'.conn] = "open"
           /\ sent' = <<>>]_vars

\* C2 witness: a request with a wrong signature has just been dropped while
\* a device is registered, a controller is present, and the sender is neither
C2_Witness ==
    /\ IsControl(ev)
    /\ ev.auth = "rejected"
    /\ ev.conn \notin controllers
    /\ controllers # {}
    /\ DOMAIN device_links # {}
    /\ sent = <<>>

\* equality of two texts up to the case of the hex letters
SameIgnoringCase(a, b) ==
    /\ Len(a) = Len(b)
    /\ \A i \in 1..Len(a) :
         \/ a[i] = b[i]
         \/ \E k \in 1..6 : {a[i], b[i]} = {LowerHex[k], UpperHex[k]}

\* C3: is_data_valid accepts iff ts is an int, sign is a str, ts lies in the
\* window now-10 .. now+10 with both ends included (now being the clock as
\* read for each bound) and sign equals, up to case, the HMAC of the decimal
\* text of ts under passhash; when the clock does not move during the call,
\* ts = now-10 and ts = now+10 with a correct signature are accepted and
\* ts = now-11 and ts = now+11 are rejected
C3_AuthWindow ==
    auth_ret.phase = "done" =>
        LET d == auth_call.data
            isInt == d.ts.t = "int"
            isStr == d.sign.t = "str"
            good == isInt /\ isStr
                    /\ SameIgnoringCase(d.sign.s, hmac_hexdigest(passhash, str(d.ts.v)))
            now == auth_call.t1
        IN  /\ (auth_ret.outcome = "accepted")
                <=> (good /\ d.ts.v - auth_call.t1 >= 0 - 10
                          /\ d.ts.v - auth_call.t2 <= 10)
            /\ (good /\ auth_call.t2 = now /\ d.ts.v \in {now - 10, now + 10})
                => auth_ret.outcome = "accepted"
            /\ (good /\ auth_call.t2 = now /\ d.ts.v \in {now - 11, now + 11})
                => auth_ret.outcome = "rejected"

\* C3 witness: a request stamped now+10 and signed in upper case is accepted
C3_Witness ==
    /\ auth_ret.phase = "done"
    /\ auth_ret.outcome = "accepted"
    /\ auth_call.t1 = auth_call.t2
    /\ auth_call.data.ts.v = auth_call.t1 + 10
    /\ auth_call.data.sign.s # lower(auth_call.data.sign.s)

\* C4: an authenticated control/devices request is answered with one message,
\* to the sender only, whose body is the registry snapshot at that moment:
\* every udid of the registry with the body of its last app/state, no other
C4_DevicesSnapshot ==
    /\ (IsControl(ev) /\ ev.data.type = "control/devices" /\ ev.auth = "accepted")
        => /\ Len(sent) = 1
           /\ sent[1].to = ev.conn
           /\ sent[1].msg.type = "control/devices"
           /\ DOMAIN sent[1].msg.body.table = DOMAIN device_links
           /\ \A u \in DOMAIN device_links :
                sent[1].msg.body.table[u] = device_table[u]
    /\ (IsMessage(ev) /\ ev.data.type = "app/state" /\ ~ev.raised)
        => device_table[ev.data.body.system.udid] = ev.data.body

\* C4 witness: the reply lists two devices, one of them on a closed connection
C4_Witness ==
    /\ IsControl(ev)
    /\ ev.data.type = "control/devices"
    /\ ev.auth = "accepted"
    /\ Cardinality(DOMAIN sent[1].msg.body.table) = 2
    /\ \E u \in DOMAIN device_links : conn_state[device_links[u]] = "closed"

\* the udids a control/command or control/commands request names
NamedDevices(e) ==
    {e.data.body.devices[i] : i \in 1..Len(e.data.body.devices)}

\* an accepted control/command, or control/commands with a command to send,
\* that names a registered and an unregistered udid
IsMixedCommand(e) ==
    /\ IsControl(e)
    /\ e.auth = "accepted"
    /\ e.data.type \in {"control/command", "control/commands"}
    /\ HasKey(e.data, "body")
    /\ e.data.type = "control/commands" => e.data.body.commands # <<>>
    /\ \E u, v \in NamedDevices(e) :
         u \in DOMAIN device_links /\ v \notin DOMAIN device_links

\* C5: a command naming one registered and one unregistered udid is still
\* delivered to the connection of the registered one
C5_MissingUdidKeepsSiblings ==
    IsMixedCommand(ev)
        => \A u \in NamedDevices(ev) \cap DOMAIN device_links :
             \E i \in 1..Len(sent) : sent[i].to = device_links[u] /\ sent[i].ok

\* C6: when a registered device that is not a controller closes while two
\* open controllers are in the controller set, each controller is sent
\* exactly one device/disconnect carrying its udid, and the registry has no
\* entry for that udid afterwards
C6_DisconnectNotifiesBoth ==
    (/\ IsClose(ev)
     /\ ev.data.was_device
     /\ ~ev.data.was_controller
     /\ Cardinality(controllers) = 2
     /\ \A k \in controllers : conn_state[k] = "open")
        => /\ \A k \in controllers :
                Cardinality(SendsTo(k, DisconnectMessage(ev.data.udid))) = 1
           /\ \A i \in 1..Len(sent) : sent[i].ok
           /\ ev.data.udid \notin DOMAIN device_links
           /\ ev.data.udid \notin DOMAIN device_table

\* C7: whenever a connection closes, normally or abnormally, the cleanup
\* has run for it: a controller is out of the controller set, a device that
\* is no controller has lost its registry entries and its device/disconnect
\* went to the controllers, and no closed connection stays in the controller
\* set or in the reverse map
C7_CleanupOnEveryClose ==
    /\ IsClose(ev) /\ ev.data.was_controller => ev.conn \notin controllers
    /\ (IsClose(ev) /\ ~ev.data.was_controller /\ ev.data.was_device)
        => /\ ev.conn \notin DOMAIN device_links_map
           /\ \A u \in DOMAIN device_links : device_links[u] # ev.conn
           /\ \A k \in controllers :
                SendsTo(k, DisconnectMessage(ev.data.udid)) # {}
    /\ \A c \in AllConns :
         conn_state[c] = "closed"
            => c \notin controllers /\ c \notin DOMAIN device_links_map

\* a message the hub broadcasts to the controllers: a relay or a disconnect
IsBroadcast(m) == HasKey(m, "udid") \/ m.type = "device/disconnect"

\* C8: the close of a connection that is in the controller set removes it
\* from the set, leaves the registry as it was and sends no
\* device/disconnect, also when the connection is registered as a device;
\* no later broadcast is sent to it
C8_ControllerCloseFrame ==
    [][/\ \A c \in AllConns :
            (c \in controllers /\ conn_state[c] = "open" /\ conn_state'[c] = "closed")
                => /\ c \notin controllers'
                   /\ device_table' = device_table
                   /\ device_links' = device_links
                   /\ device_links_map' = device_links_map
                   /\ sent' = <<>>
       /\ \A i \in 1..Len(sent') :
            (IsBroadcast(sent'[i].msg) /\ sent'[i].to \in authed)
                => conn_state'[sent'[i].to] # "closed"]_vars

\* C9: a connection is in the controller set only if it has passed
\* authentication and has not closed since; only an accepted control/*
\* request adds a connection to the set, and no message removes one
C9_ControllerMembership ==
    /\ [](\A c \in controllers : c \in authed /\ conn_state[c] = "open")
    /\ [][/\ \A c \in controllers' \ controllers :
               IsControl(ev') /\ ev'.auth = "accepted" /\ ev'.conn = c
          /\ \A c \in controllers \ controllers' : IsClose(ev') /\ ev'.conn = c]_vars

\* a frame that is neither binary nor a control/* request
IsPlainMessage(e) == e.kind \in {"message", "badjson"} /\ ~IsControl(e)

\* a JSON object with a type other than control/* that the dispatch handled
\* without an exception (an app/state has a body with a usable system.udid)
IsRelayable(e) == IsMessage(e) /\ ~IsControl(e) /\ ~e.raised

\* C10 as claimed: every message that is no control/* request and comes from
\* a connection in the reverse map is sent to every controller with the udid
\* bound to the sender; one from a connection without entry is relayed to
\* nobody
C10_EveryMessageRelayed ==
    IsPlainMessage(ev)
        => IF ev.conn \in DOMAIN device_links_map
           THEN \A k \in controllers :
                   \E i \in 1..Len(sent) :
                      /\ sent[i].to = k
                      /\ HasKey(sent[i].msg, "udid")
                      /\ sent[i].msg.udid = device_links_map[ev.conn]
           ELSE \A i \in 1..Len(sent) : ~HasKey(sent[i].msg, "udid")

\* C10 amended: every message that is a JSON object with a type other than
\* control/*, and for app/state a body with a usable system.udid, coming
\* from a connection in the reverse map (an app/state is registered first)
\* is sent once to every controller, as received but with udid set to the
\* udid bound to the sender, and to nobody else; one from a connection
\* without entry is relayed to nobody
C10_WellFormedRelayed ==
    IsRelayable(ev)
        => IF ev.conn \in DOMAIN device_links_map
           THEN /\ \A k \in controllers :
                     Cardinality(SendsTo(k, SetKey(ev.data, "udid",
                                                   device_links_map[ev.conn]))) = 1
                /\ Len(sent) = Cardinality(controllers)
                /\ ev.data.type = "app/state"
                     => device_links_map[ev.conn] = ev.data.body.system.udid
           ELSE sent = <<>>

\* C10 witness: a registered device sends a message that carries a udid of
\* another device, and two controllers get it under the sender's udid
C10_Witness ==
    /\ IsRelayable(ev)
    /\ ev.data.type = "app/log"
    /\ HasKey(ev.data, "udid")
    /\ Cardinality(controllers) = 2
    /\ Len(sent) = 2
    /\ sent[1].msg.udid # ev.data.udid

\* the connections a fan-out step addresses, one entry per send, in the
\* order the hub builds its list of sends
FanOutTargets(e) ==
    IF e.kind = "tick" THEN LinkValues
    ELSE IF IsControl(e) /\ e.auth = "accepted" /\ ~e.raised
    THEN CASE e.data.type = "control/refresh" -> LinkValues
           [] e.data.type = "control/command" ->
                 [i \in 1..Len(e.data.body.devices) |->
                     device_links[e.data.body.devices[i]]]
           [] e.data.type = "control/commands" ->
                 [k \in 1..(Len(e.data.body.devices)
                                * Len(e.data.body.commands)) |->
                     device_links[e.data.body.devices[
                         ((k - 1) \div Len(e.data.body.commands)) + 1]]]
           [] OTHER -> <<>>
    ELSE IF IsRelayable(e) /\ e.conn \in DOMAIN device_links_map
    THEN SortedSeq(controllers)
    ELSE IF e.kind = "close_error" /\ e.data.was_device
            /\ ~e.data.was_controller /\ ~e.raised
    THEN SortedSeq(controllers)
    ELSE <<>>

\* C11: in every fan-out (control/refresh, control/command,
\* control/commands, the relay, device/disconnect, a poller round) each
\* target is sent its message whatever happens to the sends to the other
\* targets: the send to a target succeeds iff that target is open, also
\* when the send to an earlier target failed
C11_FailedSendIsolated ==
    LET t == FanOutTargets(ev)
    IN  \A i \in 1..Len(t) :
           /\ i <= Len(sent)
           /\ sent[i].to = t[i]
           /\ sent[i].ok = (conn_state[t[i]] = "open")

\* C11 witness: a fan-out whose send to one target fails (the target is
\* closed) and whose send of the same message to a later target succeeds
C11_Witness ==
    /\ Len(FanOutTargets(ev)) >= 2
    /\ \E i, j \in 1..Len(sent) :
          /\ i < j
          /\ ~sent[i].ok
          /\ sent[j].ok
          /\ sent[i].msg = sent[j].msg

\* the connections with a forward entry in the registry
RegisteredConns == {device_links[u] : u \in DOMAIN device_links}

\* C12: on a poller round with a non-empty registry every registered device
\* connection is sent exactly one {type: app/state, body: ''} and nothing is
\* sent to a connection that is not registered as a device; with an empty
\* registry nothing is sent; a send that fails stops neither the other sends
\* nor the poller
C12_TickOncePerDevice ==
    ev.kind = "tick"
        => /\ \A c \in RegisteredConns : Cardinality(SendsTo(c, StatusRequest)) = 1
           /\ \A i \in 1..Len(sent) :
                 /\ sent[i].to \in RegisteredConns
                 /\ sent[i].msg = StatusRequest
                 /\ sent[i].ok = (conn_state[sent[i].to] = "open")
           /\ DOMAIN device_links = {} => sent = <<>>
           /\ status_timer_task = "sleeping" /\ ~stop_timer

\* the step handled a received text frame (parsed or not)
IsTextFrame(e) == e.kind \in {"message", "badjson", "uncaught"}

\* C13: text that is not valid JSON is answered with exactly one
\* {error: 'bad json', type: 'error', body: <the text>} to its sender and
\* to nobody else, changes neither the registry nor the controller set and
\* leaves the connection open; and no exception raised while one message
\* is processed ends the message loop of its connection
C13_MessageErrorsContained ==
    [][/\ ev'.kind = "badjson"
            => /\ sent' = <<[to |-> ev'.conn, msg |-> BadJsonReply, ok |-> TRUE]>>
               /\ UNCHANGED <<Registry, controllers>>
               /\ conn_state'[ev'.conn] = "open"
       /\ IsTextFrame(ev') /\ ev'.raised
            => conn_state'[ev'.conn] = "open"]_vars

\* an authenticated request of control type t whose sends were built
IsServed(e, t) ==
    /\ IsControl(e)
    /\ e.data.type = t
    /\ e.auth = "accepted"
    /\ ~e.raised

\* the messages sent to connection c, in the order of the sends
MessagesTo(c) ==
    LET s == SelectSeq(sent, LAMBDA x : x.to = c)
    IN  [i \in 1..Len(s) |-> s[i].msg]

RECURSIVE Repeat(_, _)
Repeat(q, n) == IF n = 0 THEN <<>> ELSE q \o Repeat(q, n - 1)

\* C14: an authenticated control/commands sends each named device the
\* listed commands in the listed order: the connection of a named udid
\* gets command i before command j whenever i < j (the whole list once per
\* named udid bound to it), and nobody else gets anything
C14_CommandsInListedOrder ==
    IsServed(ev, "control/commands")
        => LET devices == ev.data.body.devices
               commands == ev.data.body.commands
               wanted == [i \in 1..Len(commands) |-> CommandMessage(commands[i])]
               named == {device_links[devices[d]] : d \in 1..Len(devices)}
           IN  commands # <<>>
                  => /\ \A c \in named :
                           MessagesTo(c) =
                              Repeat(wanted,
                                     Cardinality({d \in 1..Len(devices) :
                                                     device_links[devices[d]] = c}))
                     /\ \A i \in 1..Len(sent) : sent[i].to \in named

\* C14 witness: two commands go to two devices on different open
\* connections, each of which gets both
C14_Witness ==
    /\ IsServed(ev, "control/commands")
    /\ Len(ev.data.body.commands) = 2
    /\ Len(ev.data.body.devices) = 2
    /\ Len(sent) = 4
    /\ sent[1].to # sent[3].to
    /\ \A i \in 1..4 : sent[i].ok

\* the step registered a device: an app/state with a usable system.udid
IsRegistration(e) == IsMessage(e) /\ e.data.type = "app/state" /\ ~e.raised

\* C15: the connection bound to a udid is the one that registered it most
\* recently (an app/state binds its udid to its sender, leaves the earlier
\* holder open and sends it nothing but what it gets as a controller, and
\* nothing but an app/state or a close handler changes a binding), and an
\* authenticated control/command whose udids are all registered sends
\* {type: body.type, body: body.body or ''} to the connection bound to each
\* listed udid, once per listed udid, and to nobody else
C15_CommandToLatestRegistrant ==
    [][/\ IsRegistration(ev')
            => LET u == ev'.data.body.system.udid
               IN  /\ device_links' = SetKey(device_links, u, ev'.conn)
                   /\ conn_state' = conn_state
                   /\ \A i \in 1..Len(sent') :
                         /\ sent'[i].to \in controllers
                         /\ sent'[i].msg = SetKey(ev'.data, "udid", u)
       /\ ~IsRegistration(ev') /\ ev'.kind # "close_error"
            => device_links' = device_links
       /\ IsServed(ev', "control/command")
            => LET body == ev'.data.body
               IN  sent' = [i \in 1..Len(body.devices) |->
                               [to |-> device_links'[body.devices[i]],
                                msg |-> [type |-> body.type,
                                         body |-> IF HasKey(body, "body")
                                                  THEN body.body ELSE EmptyBody],
                                ok |-> conn_state'[device_links'[body.devices[i]]]
                                          = "open"]]]_vars

\* C15 witness: a udid registered first by one connection and later by
\* another is named in a command; the command reaches the later connection
\* while the earlier one is still open and gets nothing
C15_Witness ==
    /\ IsServed(ev, "control/command")
    /\ Len(sent) = 1
    /\ sent[1].ok
    /\ sent[1].to = device_links[ev.data.body.devices[1]]
    /\ \E c \in DOMAIN device_links_map :
          /\ c # sent[1].to
          /\ device_links_map[c] = ev.data.body.devices[1]
          /\ conn_state[c] = "open"

\* C16: the shutdown of the poller terminates.  Once stop_status_timer has
\* been called the poller task stops, whether it was sleeping or waiting
\* for the sends of a round, and stop_status_timer returns; it returns only
\* when the task has stopped; and no status request is sent once it has
\* been called, so none after it returns
C16_PollerShutdown ==
    /\ [](main_pc = "stopped" => status_timer_task = "done")
    /\ [][stop_timer => ev'.kind # "tick"]_vars
    /\ (main_pc = "stopping") ~> (status_timer_task = "done")
    /\ (main_pc = "stopping") ~> (main_pc = "stopped")

\* C16 witness: stop_status_timer is called while the poller waits for the
\* sends of a round to two registered devices
C16_Witness ==
    /\ ev.kind = "stop_timer"
    /\ ev.data.task = "sending"
    /\ main_pc = "stopping"
    /\ status_timer_task = "cancelling"
    /\ Cardinality(DOMAIN device_links) = 2

\* C17: once the close handler has run for a registered connection that is
\* no controller, the registry holds nothing for that connection: no udid
\* of device_links maps to it, it is not a key of device_links_map, and the
\* udid it was bound to has no snapshot in device_table; also when the
\* connection had sent app/state under several udids
C17_ClosedDeviceFullyRemoved ==
    ev.kind = "close_error" /\ ev.data.was_device /\ ~ev.data.was_controller
        => /\ \A u \in DOMAIN device_links : device_links[u] # ev.conn
           /\ ev.conn \notin DOMAIN device_links_map
           /\ ev.data.udid \notin DOMAIN device_table

\* C18: in every reachable state the registry is a bidirectional mapping:
\* device_links[device_links_map[c]] = c for every connection c of
\* device_links_map, and device_links_map[device_links[u]] = u for every
\* udid u of device_links
C18_RegistryBidirectional ==
    /\ \A c \in DOMAIN device_links_map :
          /\ device_links_map[c] \in DOMAIN device_links
          /\ device_links[device_links_map[c]] = c
    /\ \A u \in DOMAIN device_links :
          /\ device_links[u] \in DOMAIN device_links_map
          /\ device_links_map[device_links[u]] = u

\* C19: the close handler removes the record of a udid only when the
\* closing connection is the one the udid is bound to: a udid bound to
\* another connection keeps its connection and its snapshot (after A, then
\* B, registered X, the close of A leaves X routed to B), and the handler
\* never fails on a deletion, since the udid it finds in the reverse map is
\* a key of device_links and of device_table
C19_CloseRemovesOwnRecordOnly ==
    [][ev'.kind = "close_error"
          => /\ \A u \in DOMAIN device_links :
                   device_links[u] # ev'.conn
                      => /\ u \in DOMAIN device_links'
                         /\ device_links'[u] = device_links[u]
                         /\ u \in DOMAIN device_table'
                         /\ device_table'[u] = device_table[u]
             /\ ~ev'.raised]_vars

\* device data: a control/devices snapshot, a relayed device message (it
\* carries the udid the hub attached) or a device/disconnect notification
IsDeviceData(m) ==
    \/ m.type \in {"control/devices", "device/disconnect"}
    \/ HasKey(m, "udid")

\* C20: a connection is sent a control/devices snapshot, a relayed device
\* message or a device/disconnect only while it is in the controller set,
\* and only connections that passed is_data_valid are in that set; so a
\* connection that never authenticated is never sent any of them
C20_DeviceDataToControllersOnly ==
    /\ controllers \subseteq authed
    /\ \A i \in 1..Len(sent) :
          IsDeviceData(sent[i].msg)
             => /\ sent[i].to \in controllers
                /\ sent[i].to \in authed

\* C20 witness: a device that never authenticated sends a message; it is
\* relayed to a controller and reaches it, and nothing is sent to the device
C20_Witness ==
    /\ IsRelayable(ev)
    /\ ev.conn \notin authed
    /\ conn_state[ev.conn] = "open"
    /\ Len(sent) = 1
    /\ HasKey(sent[1].msg, "udid")
    /\ sent[1].ok
    /\ sent[1].to # ev.conn

====
